---- MODULE Spec2Model ----
(***************************************************************************)
(* Model of the SCB scraper: the catalog crawler (api-leaf-updater), the   *)
(* update scheduler, and the queue-driven table updater (Worker) with its  *)
(* chunked download, transform and incremental sync.                       *)
(*                                                                         *)
(* Time is counted in days.  Rows of a destination table are abstracted to *)
(* a primary-key tuple (key) and the tuple of value columns (val).         *)
(***************************************************************************)
EXTENDS Integers, Sequences, FiniteSets, TLC

(***************************************************************************)
(* Bounds of the model                                                     *)
(***************************************************************************)
NumTables == 2        \* leaf tables (full_nav_path values) of the pipeline
MaxKey == 2           \* distinct primary-key tuples a source can report
MaxVal == 2           \* distinct value tuples a source can report
MaxRows == 2          \* rows in one download (all payloads together)
MaxSchedRuns == 2     \* scheduler runs in one behaviour
MaxTicks == 2         \* clock advances in one behaviour
TickDays == 31        \* days the clock advances in one step
StartNow == 1         \* the clock at the start (days after the sentinel)

(***************************************************************************)
(* Program constants                                                       *)
(***************************************************************************)
ROW_BUDGET == 70000          \* chunk_card_list: int(70000 / datapoints)
BatchLimit == 100            \* get_update_list: LIMIT 100
StalenessInterval == 30      \* table_etl: interval '30 day'
Sentinel == 0                \* leaf updater: dt(1900,1,1)
MaxAttempts == 3             \* table_etl: for i in range(3)

(***************************************************************************)
(* State                                                                   *)
(***************************************************************************)
\* get_table, called by the retry loop of table_etl, on any table
VARIABLES
    kpc,          \* position in get_table: "vars", "query", "extracted",
                  \* "chunked" (the request loop), then "returned" or "failed"
    tvars,        \* get_table_variables: the sequence of valueTexts lists
    query,        \* create_query: variable name (its index) -> valueTexts
    card_key,     \* extract_cardinal_key: the name taken out of the query
    card_list,    \* extract_cardinal_key: its valueTexts
    chunks,       \* chunk_card_list: [raised, value]: the list of chunks,
                  \* or the exception raised
    ki,           \* get_table: requests answered in the loop over chunks
    kdata,        \* get_table: the local list data of payloads
    kreqs,        \* history: the queries set for the requests of this call
    kattempt,     \* table_etl: the attempt index i
    kret,         \* table_etl: data, what get_table returned
    kdiscarded,   \* history: a failed attempt had downloaded payloads
    kslept,       \* get_table: the rate limiter's sleep of this round is done
    krun,         \* history: data requests issued since the last sleep
    klast         \* history: the seconds of the last sleep of this download

paceVars == <<kslept, krun, klast>>
chunkVars == <<kpc, tvars, query, card_key, card_list, chunks, ki, kdata, kreqs,
               kattempt, kret, kdiscarded, paceVars>>
loopVars == <<ki, kdata, kreqs, kattempt, kret, kdiscarded, paceVars>>

\* the leaf updater
VARIABLES
    catalog,      \* the source's navigation tree: the root's listing
    cpc,          \* position in main / find_nodes of the leaf updater
    cursor,       \* scb.ids: the navigation cursor of the SCB object
    stack,        \* find_nodes call frames: [id_path, ids, k]
    info,         \* the local info of the running find_nodes
    nodes,        \* main's nodes / find_nodes' res_list
    start_nodes,  \* main: the start nodes not yet crawled
    crawled,      \* history: the start nodes whose find_nodes has returned
    errs,         \* history: listing errors answered by the API so far
    failed        \* history: id_paths whose listing failed twice

crawlVars == <<catalog, cpc, cursor, stack, info, nodes, start_nodes,
               crawled, errs, failed>>

\* the store, the queue, the scheduler and the Worker
VARIABLES
    now,          \* the clock (days)
    ticks,        \* clock advances so far
    scb_ref,      \* the reference table: full_nav_path -> [last_update, next_update]
    description,  \* the reference table: the [full_nav_path, description]
                  \* of its rows
    dest,         \* the destination tables: node -> [exists, rows]
    queue,        \* the subscription: path -> number of messages to deliver
    schedRuns,    \* scheduler runs so far
    wpc,          \* position of the Worker in sub / callback / table_etl
    wmsg,         \* callback: the message being processed: "none", or
                  \* "inflight", "acked", "nacked"
    node,         \* table_etl: the decoded path
    wi,           \* table_etl: the attempt index i
    data,         \* table_etl: [payloads, malformed]
    df,           \* table_etl: the transformed rows
    cdf,          \* table_etl: the comparison table read from the store
    ret,          \* callback: what table_etl returned
    werr,         \* the step whose exception left the callback, or None
    snap,         \* history: [ref, dest] when the message was received
    prev,         \* history: node -> the source rows of its last append
    repeat,       \* history: the source rows of this call are those of prev
    appended,     \* history: rows appended by the last append
    calls         \* history: get_table invocations of the running table_etl

pipeVars == <<now, ticks, scb_ref, description, dest, queue, schedRuns, wpc, wmsg, node,
              wi, data, df, cdf, ret, werr, snap, prev, repeat, appended, calls>>

\* the thread pool of the subscriber: the callbacks that run side by side
VARIABLES
    spc,          \* position of sub: "listening", "failed" (the streaming
                  \* pull future holds an exception), "cancelled", "closed"
    tpc,          \* thread -> position of its callback / table_etl, or "idle"
    tnode,        \* thread -> table_etl: the decoded path
    tdf,          \* thread -> table_etl: the transformed rows
    trejected     \* history: an append was rejected by a primary key

poolVars == <<spc, tpc, tnode, tdf, trejected>>

\* data_to_df on one download
VARIABLES
    dpc,          \* position in data_to_df
    dcolumns,     \* data[0]['columns']: the sequence of [text, type]
    ddata,        \* concat_data: the rows, each the list of its cells
    dframe        \* df: the sequence of columns [name, values]

dateVars == <<dpc, dcolumns, ddata, dframe>>

\* the standalone pipeline, main(start_node) of main.py
VARIABLES
    bpc,          \* position in main: "download", "load", or "off"
    bnodes,       \* nodes: the full_nav_path of the crawled leaves
    bi,           \* the index of the running loop, over nodes or over ldf
    battempt,     \* the attempt index i of range(3)
    bdata,        \* data: what get_table returned, one entry per download
    bldf,         \* ldf: the transformed downloads
    bmerged       \* the store: [table, leaf] for the rows of a leaf's
                  \* download merged into a destination table

batchVars == <<bpc, bnodes, bi, battempt, bdata, bldf, bmerged>>

vars == <<pipeVars, chunkVars, crawlVars, poolVars, dateVars, batchVars>>

clockVars == <<now, ticks>>
schedVars == <<schedRuns>>
etlVars == <<node, wi, data, df, cdf, ret>>
histVars == <<snap, prev, repeat, appended, calls>>

Paths == 1..NumTables
Keys == 1..MaxKey
Vals == 1..MaxVal
Rows == [key : Keys, val : Vals]

None == "None"

(***************************************************************************)
(* Small helpers on sequences                                              *)
(***************************************************************************)
RECURSIVE Concat(_)
Concat(ss) == IF ss = <<>> THEN <<>> ELSE Head(ss) \o Concat(Tail(ss))

Range(s) == {s[i] : i \in DOMAIN s}

(***************************************************************************)
(* Bounds of the chunking specification                                    *)
(***************************************************************************)
MaxDims == 3          \* variables (dimensions) of one table

\* cardinalities a dimension's valueTexts can have in the chunking
\* specification: small ones, and large ones around the row budget
DimCards == {1, 2, 3, 175, 200, 201, 265}

\* valueTexts of a dimension with c values
ValueTexts(c) == [i \in 1..c |-> i]

\* create_query: one entry per variable, keyed by the variable's name
CreateQuery(vs) == [k \in DOMAIN vs |-> vs[k]]

\* extract_cardinal_key: the first variable with strictly the most values
ExtractCardinalKey(q) ==
    CHOOSE k \in DOMAIN q :
        /\ \A j \in DOMAIN q : Len(q[j]) <= Len(q[k])
        /\ \A j \in DOMAIN q : j < k => Len(q[j]) < Len(q[k])

\* del query[key]
DelKey(q, k) == [j \in (DOMAIN q) \ {k} |-> q[j]]

RECURSIVE DatapointsOver(_, _)
DatapointsOver(q, ks) ==
    IF ks = {} THEN 1
    ELSE LET k == CHOOSE x \in ks : TRUE
         IN Len(q[k]) * DatapointsOver(q, ks \ {k})

\* datapoints returned without the highest cardinality variable
Datapoints(q) == DatapointsOver(q, DOMAIN q)

\* n = int(70000 / datapoints), set to 1 when it is 0
ChunkN(q) ==
    LET n == ROW_BUDGET \div Datapoints(q)
    IN IF n = 0 THEN 1 ELSE n

\* numpy.array_split(ary, sections) for an integer number of sections:
\* it raises ValueError unless sections > 0; otherwise the first
\* (len % sections) sections have len \div sections + 1 items, the others
\* len \div sections
ArraySplit(ary, sections) ==
    IF sections <= 0 THEN [raised |-> "ValueError", value |-> <<>>]
    ELSE LET each == Len(ary) \div sections
             extras == Len(ary) % sections
             start(i) == IF i <= extras THEN (i - 1) * (each + 1)
                         ELSE extras * (each + 1) + (i - 1 - extras) * each
             size(i) == IF i <= extras THEN each + 1 ELSE each
         IN [raised |-> None,
             value |-> [i \in 1..sections |->
                          SubSeq(ary, start(i) + 1, start(i) + size(i))]]

\* chunk_card_list
ChunkCardList(q, cl) == ArraySplit(cl, Len(cl) \div ChunkN(q))

(***************************************************************************)
(* The catalog crawler (api-leaf-updater)                                  *)
(***************************************************************************)
MaxNodes == 5         \* nodes of a catalog

\* an answer of the API that holds "error"
Error == [error |-> TRUE, items |-> <<>>]

TNode == [type |-> "t", sub |-> <<>>]
LNode(s) == [type |-> "l", sub |-> s]

\* the listings (ordered forests) with exactly n nodes; the id of a child is
\* its position in the listing of its parent
RECURSIVE Forests(_)
Forests(n) ==
    IF n = 0 THEN {<<>>}
    ELSE {<<TNode>> \o r : r \in Forests(n - 1)}
         \cup UNION {{<<LNode(f)>> \o r : f \in Forests(k), r \in Forests(n - 1 - k)} :
                      k \in 0..(n - 1)}

\* the catalogs with exactly n nodes: every top-level node is a branch
RECURSIVE TopForests(_)
TopForests(n) ==
    IF n = 0 THEN {<<>>}
    ELSE UNION {{<<LNode(f)>> \o r : f \in Forests(k), r \in TopForests(n - 1 - k)} :
                 k \in 0..(n - 1)}

Catalogs == UNION {TopForests(n) : n \in 0..MaxNodes}

\* scb.go_down(id) and scb.go_up() move the cursor
GoDown(ids, id) == Append(ids, id)
\* (mutant: find_nodes returns without going up)
GoUp_Stays(ids) == ids
GoUp(ids) == SubSeq(ids, 1, Len(ids) - 1)

\* the listing of the node the cursor ids points to, from listing l
RECURSIVE ListingAt(_, _)
ListingAt(l, ids) ==
    IF ids = <<>> THEN [error |-> FALSE, items |-> l]
    ELSE IF Head(ids) \in DOMAIN l /\ l[Head(ids)].type = "l"
         THEN ListingAt(l[Head(ids)].sub, Tail(ids))
         ELSE Error

\* scb.info() without an error: the children {id, type} of the current node
ScbInfo(ids) ==
    LET l == ListingAt(catalog, ids)
    IN IF l.error THEN Error
       ELSE [error |-> FALSE,
             items |-> [i \in DOMAIN l.items |-> [id |-> i, type |-> l.items[i].type]]]

\* find_nodes, the loop over info: the entries appended to res_list
TNodesOf(id_path, inf) ==
    LET ts == SelectSeq(inf.items, LAMBDA i : i.type = "t")
    IN [j \in DOMAIN ts |-> [full_nav_path |-> Append(id_path, ts[j].id)]]

\* find_nodes, the loop over info: the "l" nodes to iterate
LNodesOf(id_path, inf) ==
    LET ls == SelectSeq(inf.items, LAMBDA i : i.type = "l")
    IN [j \in DOMAIN ls |-> Append(id_path, ls[j].id)]

Top == stack[Len(stack)]

\* main: the next start node is handed to find_nodes
MainCall ==
    /\ cpc = "main"
    /\ start_nodes # <<>>
    /\ stack' = <<[id_path |-> <<Head(start_nodes)>>, ids |-> <<>>, k |-> 1]>>
    /\ start_nodes' = Tail(start_nodes)
    /\ cpc' = "enter"
    /\ UNCHANGED <<catalog, cursor, info, nodes, crawled, errs, failed>>
    /\ UNCHANGED <<batchVars, pipeVars, chunkVars, poolVars, dateVars>>

\* main: every start node is crawled
MainCrawled ==
    /\ cpc = "main"
    /\ start_nodes = <<>>
    /\ cpc' = "crawled"
    /\ UNCHANGED <<catalog, cursor, stack, info, nodes, start_nodes, crawled,
                   errs, failed>>
    /\ UNCHANGED <<batchVars, pipeVars, chunkVars, poolVars, dateVars>>

\* find_nodes: go down the last id of the path, get the node's info
FindNodesInfo ==
    /\ cpc = "enter"
    /\ cursor' = GoDown(cursor, Top.id_path[Len(Top.id_path)])
    /\ \/ info' = ScbInfo(cursor') /\ errs' = errs
       \/ info' = Error /\ errs' = errs + 1
    /\ cpc' = "listed"
    /\ UNCHANGED <<catalog, stack, nodes, start_nodes, crawled, failed>>
    /\ UNCHANGED <<batchVars, pipeVars, chunkVars, poolVars, dateVars>>

\* find_nodes: "error" in info: sleep and call again
FindNodesRetry ==
    /\ cpc = "listed"
    /\ info.error
    /\ \/ info' = ScbInfo(cursor) /\ errs' = errs
       \/ info' = Error /\ errs' = errs + 1
    /\ cpc' = "retried"
    /\ UNCHANGED <<catalog, cursor, stack, nodes, start_nodes, crawled, failed>>
    /\ UNCHANGED <<batchVars, pipeVars, chunkVars, poolVars, dateVars>>

\* find_nodes: the loop over info.  Over an error answer the loop variable
\* is a string and i['type'] raises TypeError, which nothing catches: the
\* exception leaves every find_nodes frame and main.
FindNodesScan ==
    /\ \/ cpc = "listed" /\ ~info.error
       \/ cpc = "retried"
    /\ IF info.error
       THEN /\ cpc' = "aborted"
            /\ failed' = failed \cup {Top.id_path}
            /\ UNCHANGED <<stack, nodes>>
       ELSE /\ nodes' = nodes \o TNodesOf(Top.id_path, info)
            /\ stack' = [stack EXCEPT ![Len(stack)].ids = LNodesOf(Top.id_path, info)]
            /\ cpc' = "loop"
            /\ UNCHANGED failed
    /\ UNCHANGED <<catalog, cursor, info, start_nodes, crawled, errs>>
    /\ UNCHANGED <<batchVars, pipeVars, chunkVars, poolVars, dateVars>>

\* find_nodes: recursively search the next "l" node
FindNodesCall ==
    /\ cpc = "loop"
    /\ Top.k <= Len(Top.ids)
    /\ stack' = Append([stack EXCEPT ![Len(stack)].k = Top.k + 1],
                       [id_path |-> Top.ids[Top.k], ids |-> <<>>, k |-> 1])
    /\ cpc' = "enter"
    /\ UNCHANGED <<catalog, cursor, info, nodes, start_nodes, crawled, errs, failed>>
    /\ UNCHANGED <<batchVars, pipeVars, chunkVars, poolVars, dateVars>>

\* find_nodes: go up if the node is completed, and return
FindNodesReturn ==
    /\ cpc = "loop"
    /\ Top.k > Len(Top.ids)
    /\ cursor' = GoUp(cursor)
    /\ stack' = SubSeq(stack, 1, Len(stack) - 1)
    /\ IF Len(stack) = 1
       THEN /\ cpc' = "main"
            /\ crawled' = Append(crawled, Top.id_path[1])
       ELSE /\ cpc' = "loop"
            /\ UNCHANGED crawled
    /\ UNCHANGED <<catalog, info, nodes, start_nodes, errs, failed>>
    /\ UNCHANGED <<batchVars, pipeVars, chunkVars, poolVars, dateVars>>

CrawlIdle ==
    /\ catalog = <<>>
    /\ cpc = "off"
    /\ cursor = <<>>
    /\ stack = <<>>
    /\ info = [error |-> FALSE, items |-> <<>>]
    /\ nodes = <<>>
    /\ start_nodes = <<>>
    /\ crawled = <<>>
    /\ errs = 0
    /\ failed = {}

ChunkIdle ==
    /\ kpc = "off"
    /\ tvars = <<>>
    /\ query = <<>>
    /\ card_key = 0
    /\ card_list = <<>>
    /\ chunks = [raised |-> None, value |-> <<>>]
    /\ ki = 0
    /\ kdata = <<>>
    /\ kreqs = <<>>
    /\ kattempt = 0
    /\ kret = <<>>
    /\ kdiscarded = FALSE
    /\ kslept = FALSE
    /\ krun = 0
    /\ klast = 0

\* main of the leaf updater up to the first find_nodes: the start nodes are
\* the ids of the root's listing
InitCrawlVars ==
    /\ catalog \in Catalogs
    /\ cpc = "main"
    /\ cursor = <<>>
    /\ stack = <<>>
    /\ info = [error |-> FALSE, items |-> <<>>]
    /\ nodes = <<>>
    /\ start_nodes = [i \in DOMAIN catalog |-> i]
    /\ crawled = <<>>
    /\ errs = 0
    /\ failed = {}

(***************************************************************************)
(* The store, the queue, the update scheduler and the Worker               *)
(***************************************************************************)
\* the variables the source reports for a table: the cardinality of each.
\* The odd paths are tables whose largest variable has at least n values,
\* the even ones small tables whose whole cross product is under the budget.
TableVariables(p) ==
    IF p % 2 = 1
    THEN [k \in 1..8 |-> ValueTexts(IF k = 8 THEN 2 ELSE 5)]
    ELSE <<ValueTexts(3), ValueTexts(2)>>

\* get_table up to its request loop, for every table: the chunks, or the
\* exception raised
ChunksOfTables ==
    [p \in Paths |->
        LET q0 == CreateQuery(TableVariables(p))
            ck == ExtractCardinalKey(q0)
        IN ChunkCardList(DelKey(q0, ck), q0[ck])]

TableChunks(p) == ChunksOfTables[p]

RowSeqs == UNION {[1..n -> Rows] : n \in 0..MaxRows}

\* what the source can answer to the requests of one attempt: one payload per
\* chunk, and whether a time-tagged column holds a value the transform
\* cannot parse
Downloads(nchunks) ==
    {[payloads |-> ps, malformed |-> b] :
        ps \in {x \in [1..nchunks -> RowSeqs] : Len(Concat(x)) <= MaxRows},
        b \in BOOLEAN}

\* data_to_df: the rows of all payloads, in order
DataToDf(d) == Concat(d.payloads)

\* (mutant: the merge is on every column, not on the keys)
Indicator_AllColumns(d, c) ==
    [i \in DOMAIN d |-> IF d[i] \in c THEN "both" ELSE "left_only"]

\* df.merge(cdf, on=keys, how="left", indicator=True)['_merge']
Indicator(d, c) ==
    [i \in DOMAIN d |-> IF \E r \in c : r.key = d[i].key THEN "both" ELSE "left_only"]

RECURSIVE MaskSeq(_, _, _)
MaskSeq(d, keep, i) ==
    IF i > Len(d) THEN <<>>
    ELSE (IF keep[i] THEN <<d[i]>> ELSE <<>>) \o MaskSeq(d, keep, i + 1)

\* df[indicator != "both"]
NotBoth(d, c) ==
    LET ind == Indicator(d, c)
    IN MaskSeq(d, [i \in DOMAIN d |-> ind[i] # "both"], 1)

\* (mutant: duplicates of a key in the new rows are kept)
DropDuplicates_Keeps(d) == d

\* (mutant: keep='last')
DropDuplicates_Last(d) ==
    MaskSeq(d, [i \in DOMAIN d |-> \A j \in (i + 1)..Len(d) : d[j].key # d[i].key], 1)

\* df.drop_duplicates(subset=keys): the first row of every key is kept
DropDuplicates(d) ==
    MaskSeq(d, [i \in DOMAIN d |-> \A j \in 1..(i - 1) : d[j].key # d[i].key], 1)

\* table_etl: check which values are not yet in the database
NewRows(d, c) == DropDuplicates(NotBoth(d, c))

\* (mutant: the table has no primary key)
PrimaryKeyOk_Off(rows, new) == TRUE

\* the PRIMARY KEY (keys) of create_table: an INSERT is rejected as a whole
\* when it would give two rows the same key tuple
PrimaryKeyOk(rows, new) ==
    /\ \A i \in DOMAIN new : \A r \in rows : r.key # new[i].key
    /\ \A i, j \in DOMAIN new : i # j => new[i].key # new[j].key

\* (mutant: if_exists='replace')
UploadDf_Replace(rows, new) == Range(new)

\* upload_df: df.to_sql(table, con, if_exists='append')
UploadDf(rows, new) == rows \cup Range(new)

\* the scheduler's WHERE clause
Stale(r, t) == r.next_update < t /\ r.next_update > r.last_update

RECURSIVE KSubsets(_, _)
KSubsets(S, k) ==
    IF k = 0 THEN {{}}
    ELSE UNION {{X \cup {x} : X \in KSubsets({y \in S : y > x}, k - 1)} : x \in S}

\* LIMIT n, without ORDER BY: any n of the rows when there are more
Limit(S, n) ==
    IF Cardinality(S) <= n THEN {S}
    ELSE {S \ X : X \in KSubsets(S, Cardinality(S) - n)}

\* (mutant: the SELECT has no LIMIT)
GetUpdateList_NoLimit(ref, t) == {{p \in DOMAIN ref : Stale(ref[p], t)}}

\* get_update_list: the result sets the SELECT can return
GetUpdateList(ref, t) == Limit({p \in DOMAIN ref : Stale(ref[p], t)}, BatchLimit)

\* messages of the subscription: the number to deliver for path p
Queued(q, p) == IF p \in DOMAIN q THEN q[p] ELSE 0

\* pub(updt) for every updt of updates: one more message for each path
Pub(q, updates) ==
    [p \in (DOMAIN q) \cup updates |-> Queued(q, p) + (IF p \in updates THEN 1 ELSE 0)]

\* one message for path p is delivered to the callback
Deliver(q, p) ==
    [r \in {x \in DOMAIN q : x # p \/ q[x] > 1} |-> IF r = p THEN q[r] - 1 ELSE q[r]]

\* (mutant: next_update is set to NOW() too)
Synced_NoInterval(t) == [last_update |-> t, next_update |-> t]

\* the timestamps table_etl sets at time t
Synced(t) == [last_update |-> t, next_update |-> t + StalenessInterval]

\* the timestamps the leaf updater gives a new node at time t
Discovered(t) == [last_update |-> Sentinel, next_update |-> t]

\* (mutant: the UPDATE has no WHERE clause)
UpdateRef_NoWhere(ref, p, t) == [q \in DOMAIN ref |-> Synced(t)]

\* the UPDATE of table_etl
UpdateRef(ref, p, t) ==
    [q \in DOMAIN ref |-> IF q = p THEN Synced(t) ELSE ref[q]]

\* the rows the leaf updater inserts for the new nodes
InsertNodes(ref, new, t) ==
    [q \in (DOMAIN ref) \cup new |-> IF q \in DOMAIN ref THEN ref[q] ELSE Discovered(t)]

MaxDesc == 2          \* distinct description texts of a leaf

Descs == 1..MaxDesc

\* node_df: the crawled leaves, full_nav_path -> description
NodeDfs == UNION {[S -> Descs] : S \in SUBSET Paths}

\* (mutant: every crawled row is kept)
FilterNewNodes_All(ref, node_df) == node_df

\* filter_new_nodes: the rows of node_df whose full_nav_path is not in scb_ref
FilterNewNodes(ref, node_df) ==
    [p \in {q \in DOMAIN node_df : q \notin DOMAIN ref} |-> node_df[p]]

\* the full_nav_path and description of the rows after the insert of new
InsertDescriptions(desc, new) ==
    desc \cup {[full_nav_path |-> p, description |-> new[p]] : p \in DOMAIN new}

(***************************************************************************)
(* Environment: the clock, the leaf updater's run, the scheduler's run     *)
(***************************************************************************)
Tick ==
    /\ ticks < MaxTicks
    /\ ticks' = ticks + 1
    /\ now' = now + TickDays
    /\ UNCHANGED <<scb_ref, description, dest, queue, schedRuns, wpc, wmsg, node, wi,
                   data, df, cdf, ret, werr, snap, prev, repeat, appended, calls>>
    /\ UNCHANGED <<batchVars, chunkVars, crawlVars, poolVars, dateVars>>

\* main of the leaf updater, from filter_new_nodes on: the crawled leaves
\* that are not in scb_ref are appended, with next_update now and
\* last_update the sentinel, in one INSERT.  (A run that finds no new leaf,
\* or whose INSERT raises the exception main catches, writes nothing.)
DiscoveryRun ==
    /\ \E node_df \in NodeDfs :
          LET new == FilterNewNodes(scb_ref, node_df)
          IN /\ DOMAIN new # {}
             /\ scb_ref' = InsertNodes(scb_ref, DOMAIN new, now)
             /\ description' = InsertDescriptions(description, new)
    /\ UNCHANGED <<now, ticks, dest, queue, schedRuns, wpc, wmsg, node, wi,
                   data, df, cdf, ret, werr, snap, prev, repeat, appended, calls>>
    /\ UNCHANGED <<batchVars, chunkVars, crawlVars, poolVars, dateVars>>

\* main of the update scheduler: one message per selected path
SchedulerRun ==
    /\ schedRuns < MaxSchedRuns
    /\ schedRuns' = schedRuns + 1
    /\ \E updates \in GetUpdateList(scb_ref, now) :
          queue' = Pub(queue, updates)
    /\ UNCHANGED <<now, ticks, scb_ref, description, dest, wpc, wmsg, node, wi,
                   data, df, cdf, ret, werr, snap, prev, repeat, appended, calls>>
    /\ UNCHANGED <<batchVars, chunkVars, crawlVars, poolVars, dateVars>>

(***************************************************************************)
(* The Worker: sub, callback and table_etl                                 *)
(***************************************************************************)
\* an exception leaves callback before message.ack(): the message stays
\* unacknowledged, the streaming pull future fails and sub shuts down
CallbackRaise(step) ==
    /\ werr' = step
    /\ wmsg' = "nacked"
    /\ queue' = Pub(queue, {node})
    /\ wpc' = "shutdown"

\* the locals of callback and table_etl before a call
NoCall ==
    /\ wmsg = "none"
    /\ node = 0
    /\ wi = 0
    /\ data = [payloads |-> <<>>, malformed |-> FALSE]
    /\ df = <<>>
    /\ cdf = {}
    /\ ret = "running"
    /\ snap = [ref |-> <<>>, dest |-> <<>>]
    /\ repeat = FALSE
    /\ appended = 0
    /\ calls = 0

\* callback: a message is delivered, table_etl starts
Receive ==
    /\ wpc = "listening"
    /\ \E p \in DOMAIN queue :
          /\ queue' = Deliver(queue, p)
          /\ node' = p
    /\ wmsg' = "inflight"
    /\ snap' = [ref |-> scb_ref, dest |-> dest]
    /\ wpc' = "get_table"
    /\ UNCHANGED <<clockVars, schedVars, scb_ref, description, dest, wi, data, df, cdf, ret,
                   werr, prev, repeat, appended, calls>>
    /\ UNCHANGED <<batchVars, chunkVars, crawlVars, poolVars, dateVars>>

\* table_etl: get_table(node) returns the payloads of every chunk
GetTableOk ==
    /\ wpc = "get_table"
    /\ TableChunks(node).raised = None
    /\ data' \in Downloads(Len(TableChunks(node).value))
    /\ calls' = calls + 1
    /\ wpc' = "transform"
    /\ UNCHANGED <<clockVars, schedVars, scb_ref, description, dest, queue, wmsg, node, wi, df,
                   cdf, ret, werr, snap, prev, repeat, appended>>
    /\ UNCHANGED <<batchVars, chunkVars, crawlVars, poolVars, dateVars>>

\* (mutant: the exception of the last attempt is not caught)
GetTableRaise_Uncaught ==
    /\ wpc = "get_table"
    /\ IF wi < MaxAttempts - 1
       THEN /\ wi' = wi + 1
            /\ UNCHANGED <<wpc, ret, queue, wmsg, werr>>
       ELSE /\ CallbackRaise("get_table")
            /\ UNCHANGED <<wi, ret>>
    /\ calls' = calls + 1
    /\ UNCHANGED <<clockVars, schedVars, scb_ref, description, dest, node, data, df,
                   cdf, snap, prev, repeat, appended>>
    /\ UNCHANGED <<batchVars, chunkVars, crawlVars, poolVars, dateVars>>

\* (mutant: range(4))
GetTableRaise_OneMore ==
    /\ wpc = "get_table"
    /\ IF wi < MaxAttempts
       THEN /\ wi' = wi + 1
            /\ UNCHANGED <<wpc, ret>>
       ELSE /\ ret' = None
            /\ wpc' = "ack"
            /\ UNCHANGED wi
    /\ calls' = calls + 1
    /\ UNCHANGED <<clockVars, schedVars, scb_ref, description, dest, queue, wmsg, node, data, df,
                   cdf, werr, snap, prev, repeat, appended>>
    /\ UNCHANGED <<batchVars, chunkVars, crawlVars, poolVars, dateVars>>

\* table_etl: get_table(node) raises (chunk_card_list, or a request), the
\* exception is caught: retry after the sleep, or return None after 3
GetTableRaise ==
    /\ wpc = "get_table"
    /\ IF wi < MaxAttempts - 1
       THEN /\ wi' = wi + 1
            /\ UNCHANGED <<wpc, ret>>
       ELSE /\ ret' = None
            /\ wpc' = "ack"
            /\ UNCHANGED wi
    /\ calls' = calls + 1
    /\ UNCHANGED <<clockVars, schedVars, scb_ref, description, dest, queue, wmsg, node, data, df,
                   cdf, werr, snap, prev, repeat, appended>>
    /\ UNCHANGED <<batchVars, chunkVars, crawlVars, poolVars, dateVars>>

\* table_etl: data_to_df(data); None for no data; try_df_to_dt raises on a
\* value it cannot convert
Transform ==
    /\ wpc = "transform"
    /\ IF Len(data.payloads) = 0
       THEN /\ ret' = None
            /\ wpc' = "ack"
            /\ UNCHANGED <<df, queue, wmsg, werr>>
       ELSE IF data.malformed
       THEN /\ CallbackRaise("transform")
            /\ UNCHANGED <<df, ret>>
       ELSE /\ df' = DataToDf(data)
            /\ wpc' = "create_table"
            /\ UNCHANGED <<ret, queue, wmsg, werr>>
    /\ UNCHANGED <<clockVars, schedVars, scb_ref, description, dest, node, wi, data, cdf,
                   histVars>>
    /\ UNCHANGED <<batchVars, chunkVars, crawlVars, poolVars, dateVars>>

\* table_etl: create_table, CREATE TABLE IF NOT EXISTS ... PRIMARY KEY
CreateTable ==
    /\ wpc = "create_table"
    /\ dest' = [dest EXCEPT ![node].exists = TRUE]
    /\ wpc' = "read_sql"
    /\ UNCHANGED <<clockVars, schedVars, scb_ref, description, queue, wmsg, etlVars, werr, histVars>>
    /\ UNCHANGED <<batchVars, chunkVars, crawlVars, poolVars, dateVars>>

\* table_etl: the comparison table, SELECT * FROM table_name, and the check
\* of which values are not yet in the database: df becomes the new rows
ReadSql ==
    /\ wpc = "read_sql"
    /\ cdf' = dest[node].rows
    /\ df' = NewRows(df, cdf')
    /\ repeat' = (prev[node] = <<df>>)
    /\ wpc' = "upload"
    /\ UNCHANGED <<clockVars, schedVars, scb_ref, description, dest, queue, wmsg, node, wi, data,
                   ret, werr, snap, prev, appended, calls>>
    /\ UNCHANGED <<batchVars, chunkVars, crawlVars, poolVars, dateVars>>

\* table_etl: upload_df appends df in one INSERT transaction, which the
\* primary key rejects as a whole on a conflict
Upload ==
    /\ wpc = "upload"
    /\ IF PrimaryKeyOk(dest[node].rows, df)
       THEN /\ dest' = [dest EXCEPT ![node].rows = UploadDf(@, df)]
            /\ appended' = Len(df)
            /\ prev' = [prev EXCEPT ![node] = <<DataToDf(data)>>]
            /\ wpc' = "update_ref"
            /\ UNCHANGED <<queue, wmsg, werr>>
       ELSE /\ CallbackRaise("upload")
            /\ UNCHANGED <<dest, appended, prev>>
    /\ UNCHANGED <<clockVars, schedVars, scb_ref, description, etlVars, snap, repeat, calls>>
    /\ UNCHANGED <<batchVars, chunkVars, crawlVars, poolVars, dateVars>>

\* table_etl: UPDATE scb_ref SET last_update, next_update; return "Success"
UpdateScbRef ==
    /\ wpc = "update_ref"
    /\ scb_ref' = UpdateRef(scb_ref, node, now)
    /\ UNCHANGED description
    /\ ret' = "Success"
    /\ wpc' = "ack"
    /\ UNCHANGED <<clockVars, schedVars, dest, queue, wmsg, node, wi, data, df, cdf,
                   werr, histVars>>
    /\ UNCHANGED <<batchVars, chunkVars, crawlVars, poolVars, dateVars>>

\* (mutant: the timestamps are written before the failing statement)
DbError_Updates ==
    /\ wpc \in {"create_table", "read_sql", "upload", "update_ref"}
    /\ CallbackRaise(wpc)
    /\ scb_ref' = UpdateRef(scb_ref, node, now)
    /\ UNCHANGED description
    /\ UNCHANGED <<clockVars, schedVars, dest, etlVars, histVars>>
    /\ UNCHANGED <<batchVars, chunkVars, crawlVars, poolVars, dateVars>>

\* a statement of the sync step fails in the store (connection, schema):
\* nothing in table_etl or callback catches the exception
DbError ==
    /\ wpc \in {"create_table", "read_sql", "upload", "update_ref"}
    /\ CallbackRaise(wpc)
    /\ UNCHANGED <<clockVars, schedVars, scb_ref, description, dest, etlVars, histVars>>
    /\ UNCHANGED <<batchVars, chunkVars, crawlVars, poolVars, dateVars>>

\* callback: message.ack()
Ack ==
    /\ wpc = "ack"
    /\ wmsg' = "acked"
    /\ wpc' = "acked"
    /\ UNCHANGED <<clockVars, schedVars, scb_ref, description, dest, queue, etlVars, werr, histVars>>
    /\ UNCHANGED <<batchVars, chunkVars, crawlVars, poolVars, dateVars>>

\* the locals of callback and table_etl are gone when the call is over
CallEnds ==
    /\ wmsg' = "none"
    /\ node' = 0
    /\ wi' = 0
    /\ data' = [payloads |-> <<>>, malformed |-> FALSE]
    /\ df' = <<>>
    /\ cdf' = {}
    /\ ret' = "running"
    /\ snap' = [ref |-> <<>>, dest |-> <<>>]
    /\ repeat' = FALSE
    /\ appended' = 0
    /\ calls' = 0

\* callback returns: the Worker waits for the next message
Return ==
    /\ wpc = "acked"
    /\ CallEnds
    /\ wpc' = "listening"
    /\ UNCHANGED <<clockVars, schedVars, scb_ref, description, dest, queue, werr, prev>>
    /\ UNCHANGED <<batchVars, chunkVars, crawlVars, poolVars, dateVars>>

\* sub: "Shutting down due to": cancel, wait, close the subscriber client
Shutdown ==
    /\ wpc = "shutdown"
    /\ CallEnds
    /\ wpc' = "closed"
    /\ UNCHANGED <<clockVars, schedVars, scb_ref, description, dest, queue, werr, prev>>
    /\ UNCHANGED <<batchVars, chunkVars, crawlVars, poolVars, dateVars>>

(***************************************************************************)
(* get_table up to the request loop, on any table                          *)
(***************************************************************************)
GetTableQuery ==
    /\ kpc = "vars"
    /\ query' = CreateQuery(tvars)
    /\ kpc' = "query"
    /\ UNCHANGED <<tvars, card_key, card_list, chunks, loopVars>>
    /\ UNCHANGED <<batchVars, pipeVars, crawlVars, poolVars, dateVars>>

GetTableExtract ==
    /\ kpc = "query"
    /\ card_key' = ExtractCardinalKey(query)
    /\ card_list' = query[card_key']
    /\ query' = DelKey(query, card_key')
    /\ kpc' = "extracted"
    /\ UNCHANGED <<tvars, chunks, loopVars>>
    /\ UNCHANGED <<batchVars, pipeVars, crawlVars, poolVars, dateVars>>

GetTableChunk ==
    /\ kpc = "extracted"
    /\ chunks' = ChunkCardList(query, card_list)
    /\ kpc' = "chunked"
    /\ UNCHANGED <<tvars, query, card_key, card_list, loopVars>>
    /\ UNCHANGED <<batchVars, pipeVars, crawlVars, poolVars, dateVars>>

\* inp_c = {card_key: c}; scb.set_query(**query, **inp_c)
SetQuery(q, k, c) == [j \in (DOMAIN q) \cup {k} |-> IF j = k THEN c ELSE q[j]]

\* scb.get_data(): the source's answer to the query set, in attempt a
GetData(a, q) == [attempt |-> a, query |-> q]

\* (mutant: the rate limiter never sets in)
PaceDue_Never(i) == FALSE

\* get_table: if (i % 10 == 0) and (i > 0)
PaceDue(i) == i % 10 = 0 /\ i > 0

\* table_etl: sleep((i + 1) ** 2)
Backoff(i) == (i + 1) * (i + 1)

\* get_table, a round of the loop over chunks whose index is due: sleep(5)
GetTableSleep ==
    /\ kpc = "chunked"
    /\ chunks.raised = None
    /\ ki < Len(chunks.value)
    /\ PaceDue(ki)
    /\ ~kslept
    /\ kslept' = TRUE
    /\ krun' = 0
    /\ klast' = 5
    /\ UNCHANGED <<kpc, tvars, query, card_key, card_list, chunks, ki, kdata, kreqs,
                   kattempt, kret, kdiscarded>>
    /\ UNCHANGED <<batchVars, pipeVars, crawlVars, poolVars, dateVars>>

\* get_table, one round of the loop over chunks: the request is answered
GetTableRequest ==
    /\ kpc = "chunked"
    /\ chunks.raised = None
    /\ ki < Len(chunks.value)
    /\ PaceDue(ki) => kslept
    /\ LET q == SetQuery(query, card_key, chunks.value[ki + 1])
       IN /\ kreqs' = Append(kreqs, q)
          /\ kdata' = Append(kdata, GetData(kattempt, q))
    /\ ki' = ki + 1
    /\ kslept' = FALSE
    /\ krun' = krun + 1
    /\ UNCHANGED <<kpc, tvars, query, card_key, card_list, chunks, kattempt, kret,
                   kdiscarded, klast>>
    /\ UNCHANGED <<batchVars, pipeVars, crawlVars, poolVars, dateVars>>

\* get_table: the loop is over, return data; table_etl: data = get_table(node)
GetTableReturn ==
    /\ kpc = "chunked"
    /\ chunks.raised = None
    /\ ki = Len(chunks.value)
    /\ kret' = kdata
    /\ kpc' = "returned"
    /\ UNCHANGED <<tvars, query, card_key, card_list, chunks, ki, kdata, kreqs,
                   kattempt, kdiscarded, paceVars>>
    /\ UNCHANGED <<batchVars, pipeVars, crawlVars, poolVars, dateVars>>

\* (mutant: data is a list that outlives the failed call)
GetTableExcept_KeepsData ==
    /\ kpc = "chunked"
    /\ \/ chunks.raised # None
       \/ /\ chunks.raised = None
          /\ ki < Len(chunks.value)
          /\ PaceDue(ki) => kslept
    /\ kslept' = FALSE
    /\ krun' = 0
    /\ klast' = Backoff(kattempt)
    /\ kdiscarded' = (kdiscarded \/ kdata # <<>>)
    /\ IF kattempt < MaxAttempts - 1
       THEN /\ kattempt' = kattempt + 1
            /\ kpc' = "vars"
       ELSE /\ kpc' = "failed"
            /\ UNCHANGED kattempt
    /\ query' = <<>>
    /\ card_key' = 0
    /\ card_list' = <<>>
    /\ chunks' = [raised |-> None, value |-> <<>>]
    /\ ki' = 0
    /\ kreqs' = <<>>
    /\ UNCHANGED <<tvars, kret, kdata>>
    /\ UNCHANGED <<batchVars, pipeVars, crawlVars, poolVars, dateVars>>

\* get_table raises, in chunk_card_list or in a request (which was issued);
\* table_etl catches the exception and sleeps (i + 1) ** 2: the locals of
\* the call are gone, and get_table is called again after the sleep, or
\* None is returned after the third failure
GetTableExcept ==
    /\ kpc = "chunked"
    /\ \/ chunks.raised # None
       \/ /\ chunks.raised = None
          /\ ki < Len(chunks.value)
          /\ PaceDue(ki) => kslept
    /\ kslept' = FALSE
    /\ krun' = 0
    /\ klast' = Backoff(kattempt)
    /\ kdiscarded' = (kdiscarded \/ kdata # <<>>)
    /\ IF kattempt < MaxAttempts - 1
       THEN /\ kattempt' = kattempt + 1
            /\ kpc' = "vars"
       ELSE /\ kpc' = "failed"
            /\ UNCHANGED kattempt
    /\ query' = <<>>
    /\ card_key' = 0
    /\ card_list' = <<>>
    /\ chunks' = [raised |-> None, value |-> <<>>]
    /\ ki' = 0
    /\ kdata' = <<>>
    /\ kreqs' = <<>>
    /\ UNCHANGED <<tvars, kret>>
    /\ UNCHANGED <<batchVars, pipeVars, crawlVars, poolVars, dateVars>>

InitChunkVars ==
    /\ kpc = "vars"
    /\ tvars \in UNION {[1..n -> {ValueTexts(c) : c \in DimCards}] : n \in 1..MaxDims}
    /\ query = <<>>
    /\ card_key = 0
    /\ card_list = <<>>
    /\ chunks = [raised |-> None, value |-> <<>>]
    /\ ki = 0
    /\ kdata = <<>>
    /\ kreqs = <<>>
    /\ kattempt = 0
    /\ kret = <<>>
    /\ kdiscarded = FALSE
    /\ kslept = FALSE
    /\ krun = 0
    /\ klast = 0

(***************************************************************************)
(* The transform: data_to_df and try_df_to_dt                              *)
(*                                                                         *)
(* A text is the sequence of its characters.  A cell of the DataFrame is   *)
(* a record tagged by its kind: "str" (s), "none", "int" (n), "float" (n), *)
(* "nan", "dt" (y, m, d), or "to_datetime" (of) for what pandas'           *)
(* to_datetime made of a cell.                                             *)
(***************************************************************************)
MaxCells == 2         \* cells (columns times rows) of a download

DateIdle ==
    /\ dpc = "off"
    /\ dcolumns = <<>>
    /\ ddata = <<>>
    /\ dframe = <<>>

\* the column texts of the bounds: the month and year columns of the source,
\* a capitalised one, a name that holds "år", another time column, a region
ColTexts ==
    { <<"m", "å", "n", "a", "d">>, <<"M", "å", "n", "a", "d">>, <<"å", "r">>,
      <<"h", "a", "l", "v", "å", "r">>, <<"k", "v", "a", "r", "t", "a", "l">>,
      <<"r", "e", "g", "i", "o", "n">> }

\* the cell texts of the bounds: months of leap and other years, a month
\* that does not exist, a month code cut short, a year, a half year, the
\* source's mark of a missing value
CellTexts ==
    { <<"2", "0", "2", "3", "M", "0", "2">>, <<"2", "0", "2", "4", "M", "0", "2">>,
      <<"1", "9", "0", "0", "M", "0", "2">>, <<"2", "0", "0", "0", "M", "0", "2">>,
      <<"2", "0", "2", "3", "M", "0", "4">>, <<"2", "0", "2", "3", "M", "1", "3">>,
      <<"2", "0", "2", "3", "M">>, <<"2", "0", "2", "0">>,
      <<"2", "0", "2", "0", "H", "1">>, <<".", ".">> }

ColTypes == {"d", "t", "c"}

Digits == <<"0", "1", "2", "3", "4", "5", "6", "7", "8", "9">>

IsDigit(ch) == \E i \in DOMAIN Digits : Digits[i] = ch

DigitVal(ch) == (CHOOSE i \in DOMAIN Digits : Digits[i] = ch) - 1

RECURSIVE DigitsVal(_)
DigitsVal(s) ==
    IF s = <<>> THEN 0
    ELSE 10 * DigitsVal(SubSeq(s, 1, Len(s) - 1)) + DigitVal(s[Len(s)])

\* int(s) of a text of the bounds: a ValueError unless it is a numeral
ParseInt(s) ==
    IF s # <<>> /\ \A i \in DOMAIN s : IsDigit(s[i])
    THEN [raised |-> None, value |-> DigitsVal(s)]
    ELSE [raised |-> "ValueError", value |-> 0]

\* s.split(sep) for a separator of one character
RECURSIVE Split(_, _)
Split(s, sep) ==
    IF \A i \in DOMAIN s : s[i] # sep THEN <<s>>
    ELSE LET k == CHOOSE i \in DOMAIN s :
                      s[i] = sep /\ \A j \in 1..(i - 1) : s[j] # sep
         IN <<SubSeq(s, 1, k - 1)>> \o Split(SubSeq(s, k + 1, Len(s)), sep)

\* sub in s
Contains(s, sub) ==
    \E k \in 0..(Len(s) - Len(sub)) : SubSeq(s, k + 1, k + Len(sub)) = sub

\* str.lower() on the letters of the bounds
Lower(ch) ==
    CASE ch = "M" -> "m"
      [] ch = "H" -> "h"
      [] ch = "Å" -> "å"
      [] OTHER -> ch

\* fix_col_name
FixColName(s) ==
    LET under(ch) == IF ch \in {" ", "/", ".", ","} THEN "_" ELSE ch
    IN [i \in DOMAIN s |-> under(Lower(under(s[i])))]

Manad == <<"m", "å", "n", "a", "d">>
Ar == <<"å", "r">>

\* calendar.isleap
IsLeap(y) == y % 4 = 0 /\ (y % 100 # 0 \/ y % 400 = 0)

\* (mutant: February has 28 days in every year)
MonthRange_NoLeap(y, m) ==
    IF m \notin 1..12 THEN [raised |-> "IllegalMonthError", value |-> 0]
    ELSE [raised |-> None,
          value |-> IF m = 2 THEN 28
                    ELSE IF m \in {4, 6, 9, 11} THEN 30 ELSE 31]

\* calendar.monthrange(y, m)[1]: the days of the month
MonthRange(y, m) ==
    IF m \notin 1..12 THEN [raised |-> "IllegalMonthError", value |-> 0]
    ELSE [raised |-> None,
          value |-> IF m = 2 THEN (IF IsLeap(y) THEN 29 ELSE 28)
                    ELSE IF m \in {4, 6, 9, 11} THEN 30 ELSE 31]

\* datetime(y, m, d)
Dt(y, m, d) ==
    IF y \in 1..9999 /\ m \in 1..12 /\ d >= 1
    THEN [raised |-> None, value |-> [kind |-> "dt", y |-> y, m |-> m, d |-> d]]
    ELSE [raised |-> "ValueError", value |-> [kind |-> "none"]]

Str(s) == [kind |-> "str", s |-> s]
NoneCell == [kind |-> "none"]

\* data[0]['columns']: dts, the texts of the columns of type "t"
Dts(columns) == {columns[j].text : j \in {k \in DOMAIN columns : columns[k].type = "t"}}

\* pd.DataFrame(concat_data, columns=cols)
DataFrame(rows, columns) ==
    [j \in DOMAIN columns |->
        [name |-> columns[j].text,
         values |-> [i \in DOMAIN rows |-> Str(rows[i][j])]]]

\* df.columns = [fix_col_name(c) for c in df.columns.tolist()]
FixColumns(f) == [j \in DOMAIN f |-> [f[j] EXCEPT !.name = FixColName(@)]]

\* df.replace({"..": None})
Replace(f) ==
    [j \in DOMAIN f |->
        [f[j] EXCEPT !.values =
            [i \in DOMAIN @ |-> IF @[i] = Str(<<".", ".">>) THEN NoneCell ELSE @[i]]]]

\* pd.to_numeric(c, errors='ignore'): the column as it is when a cell is no
\* number; numbers otherwise, floats when a cell is missing
ToNumeric(c) ==
    LET numeral(x) == x.kind = "str" /\ ParseInt(x.s).raised = None
        missing(x) == x.kind = "none"
    IN IF \E i \in DOMAIN c.values : ~numeral(c.values[i]) /\ ~missing(c.values[i])
       THEN c
       ELSE IF \E i \in DOMAIN c.values : missing(c.values[i])
       THEN [c EXCEPT !.values =
                [i \in DOMAIN @ |-> IF missing(@[i]) THEN [kind |-> "nan"]
                                    ELSE [kind |-> "float", n |-> ParseInt(@[i].s).value]]]
       ELSE [c EXCEPT !.values =
                [i \in DOMAIN @ |-> [kind |-> "int", n |-> ParseInt(@[i].s).value]]]

\* .apply(lambda c: pd.to_numeric(c, errors='ignore') if c.name != "region" else c)
Numeric(f) ==
    [j \in DOMAIN f |->
        IF f[j].name # <<"r", "e", "g", "i", "o", "n">> THEN ToNumeric(f[j]) ELSE f[j]]

\* try_df_to_dt, "månad", one cell: split on M, int of the first two parts,
\* the last day of the month
MonthCell(x) ==
    IF x.kind # "str" THEN [raised |-> "TypeError", value |-> x]
    ELSE LET parts == Split(x.s, "M")
         IN IF Len(parts) < 2 THEN [raised |-> "IndexError", value |-> x]
            ELSE LET y == ParseInt(parts[1])
                     m == ParseInt(parts[2])
                 IN IF y.raised # None \/ m.raised # None
                    THEN [raised |-> "ValueError", value |-> x]
                    ELSE IF MonthRange(y.value, m.value).raised # None
                    THEN [raised |-> "IllegalMonthError", value |-> x]
                    ELSE Dt(y.value, m.value, MonthRange(y.value, m.value).value)

\* try_df_to_dt, "år", one cell: dt(int(y), 12, calendar.monthrange(y, 12)[1])
YearCell(x) ==
    IF x.kind = "int"
    THEN Dt(x.n, 12, MonthRange(x.n, 12).value)
    ELSE IF x.kind \in {"nan", "str"} THEN [raised |-> "ValueError", value |-> x]
    ELSE [raised |-> "TypeError", value |-> x]

\* the columns try_df_to_dt can return for column c, or the exception
TryDfToDt(c, dts) ==
    LET cells(op(_)) ==
            IF \E i \in DOMAIN c.values : op(c.values[i]).raised # None
            THEN {[raised |-> op(c.values[CHOOSE i \in DOMAIN c.values :
                                   /\ op(c.values[i]).raised # None
                                   /\ \A k \in 1..(i - 1) :
                                         op(c.values[k]).raised = None]).raised,
                   value |-> c]}
            ELSE {[raised |-> None,
                   value |-> [c EXCEPT !.values = [i \in DOMAIN @ |-> op(@[i]).value]]]}
    IN IF c.name \notin dts THEN {[raised |-> None, value |-> c]}
       ELSE IF c.name = Manad
       THEN IF \A i \in DOMAIN c.values : c.values[i].kind \in {"int", "float", "nan"}
            THEN {[raised |-> "AttributeError", value |-> c]}
            ELSE cells(MonthCell)
       ELSE IF Contains(c.name, Ar) THEN cells(YearCell)
       ELSE {[raised |-> None, value |-> c],
             [raised |-> None,
              value |-> [c EXCEPT !.values =
                           [i \in DOMAIN @ |-> [kind |-> "to_datetime", of |-> @[i]]]]]}

\* data_to_df, lines 180-193: the DataFrame of the rows
DfCreate ==
    /\ dpc = "data"
    /\ dframe' = DataFrame(ddata, dcolumns)
    /\ dpc' = "created"
    /\ UNCHANGED <<dcolumns, ddata>>
    /\ UNCHANGED <<batchVars, pipeVars, chunkVars, crawlVars, poolVars>>

DfFixColumns ==
    /\ dpc = "created"
    /\ dframe' = FixColumns(dframe)
    /\ dpc' = "named"
    /\ UNCHANGED <<dcolumns, ddata>>
    /\ UNCHANGED <<batchVars, pipeVars, chunkVars, crawlVars, poolVars>>

DfReplace ==
    /\ dpc = "named"
    /\ dframe' = Replace(dframe)
    /\ dpc' = "replaced"
    /\ UNCHANGED <<dcolumns, ddata>>
    /\ UNCHANGED <<batchVars, pipeVars, chunkVars, crawlVars, poolVars>>

DfNumeric ==
    /\ dpc = "replaced"
    /\ dframe' = Numeric(dframe)
    /\ dpc' = "numeric"
    /\ UNCHANGED <<dcolumns, ddata>>
    /\ UNCHANGED <<batchVars, pipeVars, chunkVars, crawlVars, poolVars>>

\* .apply(lambda c: try_df_to_dt(c, dts)): every column, or the exception
\* of the first column that raises
DfDates ==
    /\ dpc = "numeric"
    /\ \E out \in [DOMAIN dframe -> UNION {TryDfToDt(dframe[j], Dts(dcolumns)) :
                                             j \in DOMAIN dframe}] :
          /\ \A j \in DOMAIN dframe : out[j] \in TryDfToDt(dframe[j], Dts(dcolumns))
          /\ IF \E j \in DOMAIN out : out[j].raised # None
             THEN dpc' = "raised" /\ UNCHANGED dframe
             ELSE /\ dpc' = "dated"
                  /\ dframe' = [j \in DOMAIN out |-> out[j].value]
    /\ UNCHANGED <<dcolumns, ddata>>
    /\ UNCHANGED <<batchVars, pipeVars, chunkVars, crawlVars, poolVars>>

\* the downloads of the bounds: some columns, and rows with a cell for each
InitDateVars ==
    /\ dpc = "data"
    /\ \E nc \in 1..MaxCells : \E nr \in 1..MaxCells :
          /\ nc * nr <= MaxCells
          /\ dcolumns \in [1..nc -> [text : ColTexts, type : ColTypes]]
          /\ ddata \in [1..nr -> [1..nc -> CellTexts]]
    /\ dframe = <<>>

(***************************************************************************)
(* The standalone pipeline: main(start_node) of main.py                    *)
(*                                                                         *)
(* A full_nav_path is the sequence of its characters.                      *)
(***************************************************************************)
MaxLeaves == 3        \* leaves a crawl can find

BatchIdle ==
    /\ bpc = "off"
    /\ bnodes = <<>>
    /\ bi = 0
    /\ battempt = 0
    /\ bdata = <<>>
    /\ bldf = <<>>
    /\ bmerged = {}

\* find_nodes: id_path + "." + i['id'], for the tables of one start node
LeafPaths == {<<"B", "E", ".", "T", Digits[k + 1]>> : k \in 1..MaxLeaves}

\* the lists of leaves a crawl can return
NodeLists ==
    UNION {{l \in [1..n -> LeafPaths] : \A i, j \in 1..n : i # j => l[i] # l[j]} :
              n \in 0..MaxLeaves}

\* nodes[i]['full_nav_path'].replace(".", "_")
TableName(path) == [i \in DOMAIN path |-> IF path[i] = "." THEN "_" ELSE path[i]]

\* get_table(node['full_nav_path']): the rows the source holds for the leaf
BatchGetTable(path) == [leaf |-> path]

\* data_to_df(dat)
BatchDataToDf(dat) == [leaf |-> dat.leaf]

\* main, the loop over nodes: get_table returns, data.append(...); break
BatchDownload ==
    /\ bpc = "download"
    /\ bi <= Len(bnodes)
    /\ bdata' = Append(bdata, BatchGetTable(bnodes[bi]))
    /\ bi' = bi + 1
    /\ battempt' = 0
    /\ UNCHANGED <<bpc, bnodes, bldf, bmerged>>
    /\ UNCHANGED <<pipeVars, chunkVars, crawlVars, poolVars, dateVars>>

\* main, the loop over nodes: get_table raises, the exception is caught:
\* retry after the sleep, or go on with the next node after 3 failures
BatchDownloadRaise ==
    /\ bpc = "download"
    /\ bi <= Len(bnodes)
    /\ IF battempt < MaxAttempts - 1
       THEN /\ battempt' = battempt + 1
            /\ UNCHANGED bi
       ELSE /\ battempt' = 0
            /\ bi' = bi + 1
    /\ UNCHANGED <<bpc, bnodes, bdata, bldf, bmerged>>
    /\ UNCHANGED <<pipeVars, chunkVars, crawlVars, poolVars, dateVars>>

\* main: for dat in data: ldf.append(data_to_df(dat))
BatchTransform ==
    /\ bpc = "download"
    /\ bi > Len(bnodes)
    /\ bldf' = [i \in DOMAIN bdata |-> BatchDataToDf(bdata[i])]
    /\ bi' = 1
    /\ bpc' = "load"
    /\ UNCHANGED <<bnodes, battempt, bdata, bmerged>>
    /\ UNCHANGED <<pipeVars, chunkVars, crawlVars, poolVars, dateVars>>

\* main, for i, dfk in enumerate(ldf): the table named from nodes[i] is
\* created, and the rows of df that are not in it are uploaded to it
BatchLoad ==
    /\ bpc = "load"
    /\ bi <= Len(bldf)
    /\ LET table_name == TableName(bnodes[bi])
       IN bmerged' = bmerged \cup {[table |-> table_name, leaf |-> bldf[bi].leaf]}
    /\ bi' = bi + 1
    /\ UNCHANGED <<bpc, bnodes, battempt, bdata, bldf>>
    /\ UNCHANGED <<pipeVars, chunkVars, crawlVars, poolVars, dateVars>>

\* main after find_nodes(start_node, scb, nodes)
InitBatchVars ==
    /\ bpc = "download"
    /\ bnodes \in NodeLists
    /\ bi = 1
    /\ battempt = 0
    /\ bdata = <<>>
    /\ bldf = <<>>
    /\ bmerged = {}

(***************************************************************************)
(* The Worker's callbacks in the subscriber's thread pool                  *)
(*                                                                         *)
(* sub passes callback to subscribe() with the client's default scheduler  *)
(* and flow control: the client runs the callback of every delivered       *)
(* message on a pool of threads, and does not wait for running callbacks   *)
(* when the streaming pull is cancelled.                                   *)
(***************************************************************************)
NumThreads == 2       \* callbacks that can run side by side

Threads == 1..NumThreads

\* the variables of the single-callback Worker and of the clock
seqVars == <<now, ticks, wpc, wmsg, node, wi, data, df, cdf, ret, werr, snap,
             prev, repeat, appended, calls>>

PoolIdle ==
    /\ spc = "off"
    /\ tpc = [t \in Threads |-> "idle"]
    /\ tnode = [t \in Threads |-> 0]
    /\ tdf = [t \in Threads |-> <<>>]
    /\ trejected = FALSE

\* the source rows a download of one table can transform to
SourceRows == RowSeqs \ {<<>>}

\* a message is delivered: its callback starts on a free thread
PoolReceive(t) ==
    /\ spc \in {"listening", "failed"}
    /\ tpc[t] = "idle"
    /\ \E p \in DOMAIN queue :
          /\ queue' = Deliver(queue, p)
          /\ tnode' = [tnode EXCEPT ![t] = p]
    /\ tpc' = [tpc EXCEPT ![t] = "get_table"]
    /\ UNCHANGED <<scb_ref, description, dest, schedRuns, seqVars, spc, tdf, trejected>>
    /\ UNCHANGED <<batchVars, chunkVars, crawlVars, dateVars>>

\* table_etl: get_table and data_to_df give the source rows
PoolGetTableOk(t) ==
    /\ tpc[t] = "get_table"
    /\ TableChunks(tnode[t]).raised = None
    /\ \E rows \in SourceRows : tdf' = [tdf EXCEPT ![t] = rows]
    /\ tpc' = [tpc EXCEPT ![t] = "create_table"]
    /\ UNCHANGED <<scb_ref, description, dest, queue, schedRuns, seqVars, spc, tnode, trejected>>
    /\ UNCHANGED <<batchVars, chunkVars, crawlVars, dateVars>>

\* table_etl: every attempt of get_table has failed, return None
PoolGetTableNone(t) ==
    /\ tpc[t] = "get_table"
    /\ tpc' = [tpc EXCEPT ![t] = "ack"]
    /\ UNCHANGED <<scb_ref, description, dest, queue, schedRuns, seqVars, spc, tnode, tdf, trejected>>
    /\ UNCHANGED <<batchVars, chunkVars, crawlVars, dateVars>>

\* table_etl: create_table
PoolCreateTable(t) ==
    /\ tpc[t] = "create_table"
    /\ dest' = [dest EXCEPT ![tnode[t]].exists = TRUE]
    /\ tpc' = [tpc EXCEPT ![t] = "read_sql"]
    /\ UNCHANGED <<scb_ref, description, queue, schedRuns, seqVars, spc, tnode, tdf, trejected>>
    /\ UNCHANGED <<batchVars, chunkVars, crawlVars, dateVars>>

\* table_etl: read the comparison table, keep the rows not yet in it
PoolReadSql(t) ==
    /\ tpc[t] = "read_sql"
    /\ tdf' = [tdf EXCEPT ![t] = NewRows(@, dest[tnode[t]].rows)]
    /\ tpc' = [tpc EXCEPT ![t] = "upload"]
    /\ UNCHANGED <<scb_ref, description, dest, queue, schedRuns, seqVars, spc, tnode, trejected>>
    /\ UNCHANGED <<batchVars, chunkVars, crawlVars, dateVars>>

\* the exception leaves the callback of thread t: the message is not
\* acknowledged, and the streaming pull future gets the exception
PoolRaise(t) ==
    /\ queue' = Pub(queue, {tnode[t]})
    /\ spc' = IF spc = "listening" THEN "failed" ELSE spc
    /\ tpc' = [tpc EXCEPT ![t] = "idle"]
    /\ tnode' = [tnode EXCEPT ![t] = 0]
    /\ tdf' = [tdf EXCEPT ![t] = <<>>]

\* table_etl: upload_df, one INSERT transaction under the primary key
PoolUpload(t) ==
    /\ tpc[t] = "upload"
    /\ IF PrimaryKeyOk(dest[tnode[t]].rows, tdf[t])
       THEN /\ dest' = [dest EXCEPT ![tnode[t]].rows = UploadDf(@, tdf[t])]
            /\ tpc' = [tpc EXCEPT ![t] = "update_ref"]
            /\ UNCHANGED <<queue, spc, tnode, tdf, trejected>>
       ELSE /\ PoolRaise(t)
            /\ trejected' = TRUE
            /\ UNCHANGED dest
    /\ UNCHANGED <<scb_ref, description, schedRuns, seqVars>>
    /\ UNCHANGED <<batchVars, chunkVars, crawlVars, dateVars>>

\* table_etl: UPDATE scb_ref, return "Success"
PoolUpdateScbRef(t) ==
    /\ tpc[t] = "update_ref"
    /\ scb_ref' = UpdateRef(scb_ref, tnode[t], now)
    /\ UNCHANGED description
    /\ tpc' = [tpc EXCEPT ![t] = "ack"]
    /\ UNCHANGED <<dest, queue, schedRuns, seqVars, spc, tnode, tdf, trejected>>
    /\ UNCHANGED <<batchVars, chunkVars, crawlVars, dateVars>>

\* callback: message.ack(), return.  Once the streaming pull is cancelled
\* the acknowledgement may not reach the service, which then redelivers
PoolAck(t) ==
    /\ tpc[t] = "ack"
    /\ \/ UNCHANGED queue
       \/ spc \in {"cancelled", "closed"} /\ queue' = Pub(queue, {tnode[t]})
    /\ tpc' = [tpc EXCEPT ![t] = "idle"]
    /\ tnode' = [tnode EXCEPT ![t] = 0]
    /\ tdf' = [tdf EXCEPT ![t] = <<>>]
    /\ UNCHANGED <<scb_ref, description, dest, schedRuns, seqVars, spc, trejected>>
    /\ UNCHANGED <<batchVars, chunkVars, crawlVars, dateVars>>

\* the streaming pull fails (a stream error that is not retried)
StreamError ==
    /\ spc = "listening"
    /\ spc' = "failed"
    /\ UNCHANGED <<scb_ref, description, dest, queue, schedRuns, seqVars, tpc, tnode, tdf, trejected>>
    /\ UNCHANGED <<batchVars, chunkVars, crawlVars, dateVars>>

\* (mutant: the streaming pull is shut down with await_callbacks_on_shutdown)
SubCancel_Awaits ==
    /\ spc = "failed"
    /\ \A t \in Threads : tpc[t] = "idle"
    /\ spc' = "cancelled"
    /\ UNCHANGED <<scb_ref, description, dest, queue, schedRuns, seqVars, tpc, tnode, tdf, trejected>>
    /\ UNCHANGED <<batchVars, chunkVars, crawlVars, dateVars>>

\* sub: result() raises; cancel() and result(): no message is delivered any
\* more; the callbacks that run are not waited for
SubCancel ==
    /\ spc = "failed"
    /\ spc' = "cancelled"
    /\ UNCHANGED <<scb_ref, description, dest, queue, schedRuns, seqVars, tpc, tnode, tdf, trejected>>
    /\ UNCHANGED <<batchVars, chunkVars, crawlVars, dateVars>>

\* sub: subscriber_client.close()
SubClose ==
    /\ spc = "cancelled"
    /\ spc' = "closed"
    /\ UNCHANGED <<scb_ref, description, dest, queue, schedRuns, seqVars, tpc, tnode, tdf, trejected>>
    /\ UNCHANGED <<batchVars, chunkVars, crawlVars, dateVars>>

(***************************************************************************)
(* Specifications                                                          *)
(***************************************************************************)
InitPipeVars ==
    /\ now = StartNow
    /\ ticks = 0
    /\ scb_ref = <<>>
    /\ description = {}
    /\ dest = [p \in Paths |-> [exists |-> FALSE, rows |-> {}]]
    /\ queue = <<>>
    /\ schedRuns = 0
    /\ wpc = "listening"
    /\ NoCall
    /\ werr = None
    /\ prev = [p \in Paths |-> <<>>]

Init == InitPipeVars /\ ChunkIdle /\ CrawlIdle /\ PoolIdle /\ DateIdle /\ BatchIdle

Next ==
    \/ Tick
    \/ DiscoveryRun
    \/ SchedulerRun
    \/ Receive
    \/ GetTableOk
    \/ GetTableRaise
    \/ Transform
    \/ CreateTable
    \/ ReadSql
    \/ Upload
    \/ UpdateScbRef
    \/ DbError
    \/ Ack
    \/ Return
    \/ Shutdown

Spec == Init /\ [][Next]_vars

\* the chunking of get_table, on every table of the bounds
InitChunk == InitPipeVars /\ InitChunkVars /\ CrawlIdle /\ PoolIdle /\ DateIdle /\ BatchIdle

NextChunk ==
    \/ GetTableQuery
    \/ GetTableExtract
    \/ GetTableChunk
    \/ GetTableSleep
    \/ GetTableRequest
    \/ GetTableReturn
    \/ GetTableExcept

SpecChunk == InitChunk /\ [][NextChunk]_vars

\* the crawl of the leaf updater, on every catalog of the bounds
InitCrawl == InitPipeVars /\ ChunkIdle /\ InitCrawlVars /\ PoolIdle /\ DateIdle /\ BatchIdle

NextCrawl ==
    \/ MainCall
    \/ MainCrawled
    \/ FindNodesInfo
    \/ FindNodesRetry
    \/ FindNodesScan
    \/ FindNodesCall
    \/ FindNodesReturn

SpecCrawl == InitCrawl /\ [][NextCrawl]_vars

\* the Worker's thread pool: every table was discovered at StartNow, the
\* scheduler runs one clock step later, while the Worker is listening
InitPool ==
    /\ now = StartNow + TickDays
    /\ ticks = 1
    /\ scb_ref = [p \in Paths |-> Discovered(StartNow)]
    /\ description = {[full_nav_path |-> p, description |-> 1] : p \in Paths}
    /\ dest = [p \in Paths |-> [exists |-> FALSE, rows |-> {}]]
    /\ queue = <<>>
    /\ schedRuns = 0
    /\ wpc = "off"
    /\ NoCall
    /\ werr = None
    /\ prev = [p \in Paths |-> <<>>]
    /\ spc = "listening"
    /\ tpc = [t \in Threads |-> "idle"]
    /\ tnode = [t \in Threads |-> 0]
    /\ tdf = [t \in Threads |-> <<>>]
    /\ trejected = FALSE
    /\ ChunkIdle /\ CrawlIdle /\ DateIdle /\ BatchIdle

NextPool ==
    \/ SchedulerRun
    \/ \E t \in Threads : PoolReceive(t)
    \/ \E t \in Threads : PoolGetTableOk(t)
    \/ \E t \in Threads : PoolGetTableNone(t)
    \/ \E t \in Threads : PoolCreateTable(t)
    \/ \E t \in Threads : PoolReadSql(t)
    \/ \E t \in Threads : PoolUpload(t)
    \/ \E t \in Threads : PoolUpdateScbRef(t)
    \/ \E t \in Threads : PoolAck(t)
    \/ StreamError
    \/ SubCancel
    \/ SubClose

SpecPool == InitPool /\ [][NextPool]_vars

\* the transform, on every download of the bounds
InitDate == InitPipeVars /\ ChunkIdle /\ CrawlIdle /\ PoolIdle /\ InitDateVars /\ BatchIdle

NextDate ==
    \/ DfCreate
    \/ DfFixColumns
    \/ DfReplace
    \/ DfNumeric
    \/ DfDates

SpecDate == InitDate /\ [][NextDate]_vars

\* the Worker when the source answers every request with well-formed data
\* and the store accepts every statement: get_table returns unless
\* chunk_card_list raises
GetTableAnswered == GetTableOk /\ ~data'.malformed

ChunkCardListRaise ==
    wpc = "get_table" /\ TableChunks(node).raised # None /\ GetTableRaise

\* every table was discovered at StartNow; the scheduler runs one clock step
\* later, while the Worker is listening
InitLive ==
    /\ now = StartNow + TickDays
    /\ ticks = 1
    /\ scb_ref = [p \in Paths |-> Discovered(StartNow)]
    /\ description \in {{[full_nav_path |-> p, description |-> f[p]] : p \in Paths} :
                           f \in [Paths -> Descs]}
    /\ dest = [p \in Paths |-> [exists |-> FALSE, rows |-> {}]]
    /\ queue = <<>>
    /\ schedRuns = 0
    /\ wpc = "listening"
    /\ NoCall
    /\ werr = None
    /\ prev = [p \in Paths |-> <<>>]
    /\ ChunkIdle /\ CrawlIdle /\ PoolIdle /\ DateIdle /\ BatchIdle

\* the steps of the callback, which the subscriber's thread keeps running
WorkerStep ==
    \/ Receive
    \/ GetTableAnswered
    \/ ChunkCardListRaise
    \/ Transform
    \/ CreateTable
    \/ ReadSql
    \/ Upload
    \/ UpdateScbRef
    \/ Ack
    \/ Return

NextLive ==
    \/ SchedulerRun
    \/ Receive
    \/ GetTableAnswered
    \/ ChunkCardListRaise
    \/ Transform
    \/ CreateTable
    \/ ReadSql
    \/ Upload
    \/ UpdateScbRef
    \/ Ack
    \/ Return

SpecLive == InitLive /\ [][NextLive]_vars /\ WF_vars(WorkerStep)

\* the standalone pipeline, on every list of crawled leaves of the bounds
InitBatch == InitPipeVars /\ ChunkIdle /\ CrawlIdle /\ PoolIdle /\ DateIdle /\ InitBatchVars

NextBatch ==
    \/ BatchDownload
    \/ BatchDownloadRaise
    \/ BatchTransform
    \/ BatchLoad

SpecBatch == InitBatch /\ [][NextBatch]_vars

\* the scheduler's run, on reference tables around the batch limit
SchedExtra == 1       \* references beyond the batch limit

SchedSizes == (0..2) \cup ((BatchLimit - 1)..(BatchLimit + SchedExtra))

\* n references discovered at StartNow, of which all but the first k were
\* synced one clock step later; the scheduler runs at any later time
InitSchedVars ==
    /\ ticks \in 0..MaxTicks
    /\ now = StartNow + ticks * TickDays
    /\ \E n \in SchedSizes : \E k \in 0..n :
          /\ ticks = 0 => k = n
          /\ scb_ref = [p \in 1..n |-> IF p <= k THEN Discovered(StartNow)
                                        ELSE Synced(StartNow + TickDays)]
          /\ description = {[full_nav_path |-> p, description |-> 1] : p \in 1..n}
    /\ dest = [p \in Paths |-> [exists |-> FALSE, rows |-> {}]]
    /\ queue = <<>>
    /\ schedRuns = MaxSchedRuns - 1
    /\ wpc = "listening"
    /\ NoCall
    /\ werr = None
    /\ prev = [p \in Paths |-> <<>>]

InitSched == InitSchedVars /\ ChunkIdle /\ CrawlIdle /\ PoolIdle /\ DateIdle /\ BatchIdle

NextSched == SchedulerRun

SpecSched == InitSched /\ [][NextSched]_vars

(***************************************************************************)
(* Properties of the Worker (Spec)                                         *)
(***************************************************************************)
\* the third attempt of the running table_etl has failed
Exhausted == wi = MaxAttempts - 1 /\ wpc # "get_table" /\ data.payloads = <<>>

\* C1: when every download attempt for a message's table has failed, the
\* Worker returns None and acknowledges the message; the timestamps of every
\* reference and every destination table are as they were when the message
\* was received.
C1_FailOpenOnExhaustion ==
    Exhausted =>
        /\ wpc \in {"ack", "acked"}
        /\ ret = None
        /\ wpc = "acked" => wmsg = "acked"
        /\ \A p \in DOMAIN snap.ref : p \in DOMAIN scb_ref /\ scb_ref[p] = snap.ref[p]
        /\ dest = snap.dest

C1_Witness ==
    /\ Exhausted
    /\ wpc = "acked"
    /\ node \in DOMAIN scb_ref
    /\ \E p \in Paths : dest[p].rows # {}

PipelineSteps == {"transform", "create_table", "read_sql", "upload", "update_ref"}

\* C2: whenever the transform step or a statement of the sync step has failed
\* for a message, the message is acknowledged and the Worker keeps consuming.
C2_AckOnPipelineFailure ==
    werr \in PipelineSteps => wmsg # "nacked" /\ wpc \notin {"shutdown", "closed"}

\* C3: a sync whose source rows are those of the table's previous append has
\* no new rows, appends nothing and leaves the destination table as it was.
C3_SyncIdempotent ==
    (repeat /\ wpc \in {"upload", "update_ref", "ack", "acked"}) =>
        /\ df = <<>>
        /\ wpc # "upload" => appended = 0 /\ dest[node].rows = cdf

C3_Witness ==
    /\ repeat
    /\ wpc = "update_ref"
    /\ DataToDf(data) # <<>>

\* C4: no two rows of a destination table share a primary-key tuple, and the
\* rows handed to the append hold every key once and no key of the table.
C4_PrimaryKeyUnique ==
    /\ \A p \in Paths : \A r1, r2 \in dest[p].rows : r1.key = r2.key => r1 = r2
    /\ wpc = "upload" =>
          /\ \A i, j \in DOMAIN df : df[i].key = df[j].key => i = j
          /\ \A i \in DOMAIN df : \A r \in dest[node].rows : r.key # df[i].key

C4_Witness ==
    /\ wpc = "update_ref"
    /\ appended > 0
    /\ \E i, j \in DOMAIN DataToDf(data) :
          i # j /\ DataToDf(data)[i].key = DataToDf(data)[j].key

\* C5: in every step, every destination table that exists still exists and
\* every row of it is still in it, with the same values.
C5_AppendOnly ==
    [][\A p \in Paths :
          /\ dest[p].exists => dest'[p].exists
          /\ dest[p].rows \subseteq dest'[p].rows]_vars

C5_Witness ==
    /\ wpc = "update_ref"
    /\ \E i \in DOMAIN DataToDf(data) : \E r \in cdf :
          r.key = DataToDf(data)[i].key /\ r.val # DataToDf(data)[i].val

\* C11: a step changes the timestamps of a reference only when table_etl,
\* having appended, returns "Success" for that reference's path, and that
\* step sets last_update = now and next_update = now + 30 days for it.
C11_TimestampsOnSuccess ==
    [][/\ \A p \in DOMAIN scb_ref :
             /\ p \in DOMAIN scb_ref'
             /\ scb_ref'[p] # scb_ref[p] =>
                    /\ wpc = "update_ref" /\ ret' = "Success"
                    /\ p = node
       /\ (ret # "Success" /\ ret' = "Success") =>
             /\ wpc = "update_ref"
             /\ node \in DOMAIN scb_ref'
             /\ scb_ref'[node] = [last_update |-> now,
                                  next_update |-> now + StalenessInterval]]_vars

C11_Witness ==
    /\ ret = "Success"
    /\ now > StartNow
    /\ scb_ref[node] = [last_update |-> now, next_update |-> now + StalenessInterval]
    /\ \E p \in DOMAIN scb_ref : p # node /\ scb_ref[p] # scb_ref[node]
    /\ snap.ref[node].last_update > Sentinel

PersistenceSteps == {"create_table", "read_sql", "upload"}

C17_SyncCompleteness ==
    wpc = "update_ref" =>
        LET R == DataToDf(data)
            fresh == {i \in DOMAIN R :
                        /\ \A r \in cdf : r.key # R[i].key
                        /\ \A j \in 1..(i - 1) : R[j].key # R[i].key}
        IN /\ dest[node].rows = cdf \cup {R[i] : i \in fresh}
           /\ appended = Cardinality(fresh)
           /\ \A i \in DOMAIN R : \E r \in dest[node].rows : r.key = R[i].key

C17_Witness ==
    /\ wpc = "update_ref"
    /\ cdf # {}
    /\ appended = 1
    /\ \E i, j \in DOMAIN DataToDf(data) :
          /\ i < j
          /\ DataToDf(data)[i].key = DataToDf(data)[j].key
          /\ DataToDf(data)[i].val # DataToDf(data)[j].val

\* C18: get_table is invoked at most 3 times for a message, only while no
\* invocation has succeeded; when the third has failed too, table_etl has
\* returned None and nothing of the transform or the sync runs.
C18_BoundedRetry ==
    [][/\ calls' <= MaxAttempts
       /\ (calls' # calls /\ calls' # 0) =>
             /\ calls' = calls + 1
             /\ wpc = "get_table"
             /\ data.payloads = <<>>
       /\ (calls = MaxAttempts /\ data.payloads = <<>>) =>
             /\ wpc \in {"ack", "acked"} /\ ret = None
             /\ wpc' \in {"ack", "acked", "listening"}
             /\ df' = <<>>
             /\ dest' = dest
             /\ \A p \in DOMAIN scb_ref : scb_ref'[p] = scb_ref[p]]_vars

C18_Witness ==
    /\ calls = MaxAttempts
    /\ ret = None
    /\ wpc = "acked"
    /\ dest[node].exists

\* C22: the reference table has one row per full_nav_path and no row is
\* ever removed or given another description; a step that inserts
\* references leaves the timestamps of every reference that exists
\* unchanged, and gives every new one next_update = now and last_update =
\* the sentinel.
C22_DiscoveryOneTime ==
    [][/\ \A r1, r2 \in description' :
             r1.full_nav_path = r2.full_nav_path => r1 = r2
       /\ {r.full_nav_path : r \in description'} = DOMAIN scb_ref'
       /\ description \subseteq description'
       /\ DOMAIN scb_ref \subseteq DOMAIN scb_ref'
       /\ DOMAIN scb_ref' # DOMAIN scb_ref =>
             /\ \A p \in DOMAIN scb_ref : scb_ref'[p] = scb_ref[p]
             /\ \A p \in (DOMAIN scb_ref') \ (DOMAIN scb_ref) :
                   scb_ref'[p] = [last_update |-> Sentinel, next_update |-> now]]_vars

\* a leaf was discovered by a run made after another leaf had been
\* discovered and synchronized, which kept the timestamps of its sync
C22_Witness ==
    \E p, q \in DOMAIN scb_ref :
       /\ scb_ref[p].last_update > Sentinel
       /\ scb_ref[p].next_update = scb_ref[p].last_update + StalenessInterval
       /\ scb_ref[q].last_update = Sentinel
       /\ scb_ref[q].next_update > scb_ref[p].last_update
       /\ Cardinality(description) = 2

\* C23: after any sequence of discovery runs, scheduler runs and message
\* processings of the Worker, successful or failed, every reference has
\* next_update > last_update.
C23_TimestampOrdering ==
    \A p \in DOMAIN scb_ref : scb_ref[p].next_update > scb_ref[p].last_update

\* after a scheduler run, one reference carries the timestamps of a sync,
\* another those of its discovery, and the processing of a message failed
C23_Witness ==
    /\ schedRuns >= 1
    /\ werr # None
    /\ \E p, q \in DOMAIN scb_ref :
          /\ scb_ref[p].last_update > Sentinel
          /\ scb_ref[q].last_update = Sentinel

\* C24: when the source answers every request and the store accepts every
\* write, the processing of a message for any table leads to a successful
\* sync: the downloaded keys are in the destination table, last_update is
\* advanced to now, the message is acknowledged, and get_table was called
\* once.
C24_RefreshLiveness ==
    \A p \in Paths :
       (wpc = "get_table" /\ node = p /\ calls = 0)
          ~> (/\ wpc = "acked" /\ node = p
              /\ wmsg = "acked"
              /\ ret = "Success"
              /\ calls = 1
              /\ scb_ref[p].last_update = now
              /\ {r.key : r \in Range(DataToDf(data))} \subseteq {r.key : r \in dest[p].rows})

(***************************************************************************)
(* Properties of the transform (SpecDate)                                  *)
(***************************************************************************)
\* a text of the form YYYYMmm with a month of the calendar
IsMonthCoded(s) ==
    /\ Len(s) = 7
    /\ s[5] = "M"
    /\ \A i \in {1, 2, 3, 4, 6, 7} : IsDigit(s[i])
    /\ DigitsVal(SubSeq(s, 6, 7)) \in 1..12

\* a text of four digits
IsYearOnly(s) == Len(s) = 4 /\ \A i \in DOMAIN s : IsDigit(s[i])

DaysOfMonths == <<31, 28, 31, 30, 31, 30, 31, 31, 30, 31, 30, 31>>

\* the last calendar day of month m of year y
LastDay(y, m) ==
    [kind |-> "dt", y |-> y, m |-> m,
     d |-> IF m = 2 /\ (y % 400 = 0 \/ (y % 4 = 0 /\ y % 100 # 0)) THEN 29
           ELSE DaysOfMonths[m]]

\* the DataFrame before the date normalization
BeforeDates == Numeric(Replace(FixColumns(DataFrame(ddata, dcolumns))))

C16_TransformNeverRaises ==
    /\ dpc # "raised"
    /\ dpc = "dated" =>
          \A j \in DOMAIN dcolumns : \A i \in DOMAIN ddata :
              dcolumns[j].type = "t" =>
                  \/ dframe[j].values[i].kind \in {"dt", "to_datetime"}
                  \/ dframe[j].values[i] = BeforeDates[j].values[i]

(***************************************************************************)
(* Properties of the Worker's thread pool (SpecPool)                       *)
(***************************************************************************)
\* C13: at most one callback, and so one table_etl, runs at any moment.
C13_OneMessageAtATime ==
    Cardinality({t \in Threads : tpc[t] # "idle"}) <= 1

\* C14: the subscriber client is closed only when no table_etl is running.
C14_GracefulShutdown ==
    spc = "closed" => \A t \in Threads : tpc[t] = "idle"

\* C20: whatever the interleaving of the callbacks, no destination table
\* holds two rows with one primary-key tuple, a step changes a table only
\* by adding all the new rows of one append, and an append that is rejected
\* changes nothing.
C20_ConcurrentSync ==
    [][\A p \in Paths :
          /\ \A r1, r2 \in dest'[p].rows : r1.key = r2.key => r1 = r2
          /\ dest'[p].rows # dest[p].rows =>
                \E t \in Threads :
                    /\ tpc[t] = "upload" /\ tnode[t] = p
                    /\ tpc'[t] = "update_ref"
                    /\ dest'[p].rows = dest[p].rows \cup Range(tdf[t])
          /\ \A t \in Threads :
                (tpc[t] = "upload" /\ tpc'[t] = "idle") =>
                    /\ dest' = dest
                    /\ ~PrimaryKeyOk(dest[tnode[t]].rows, tdf[t])]_vars

C20_Witness ==
    /\ trejected
    /\ \E p \in Paths : Cardinality(dest[p].rows) >= 2

(***************************************************************************)
(* Properties of the scheduler (SpecSched)                                 *)
(***************************************************************************)
\* C6: in a scheduler run every published path is a reference with
\* next_update < now and next_update > last_update, every such path gets
\* exactly one message, and at most 100 paths are published.
C6_SchedulerSelection ==
    [][schedRuns' # schedRuns =>
          LET published(p) == Queued(queue', p) - Queued(queue, p)
              selected == {p \in DOMAIN queue' : published(p) # 0}
          IN /\ \A p \in selected :
                   /\ published(p) = 1
                   /\ p \in DOMAIN scb_ref
                   /\ scb_ref[p].next_update < now
                   /\ scb_ref[p].next_update > scb_ref[p].last_update
             /\ Cardinality(selected) <= BatchLimit]_vars

C6_Witness ==
    /\ schedRuns = MaxSchedRuns
    /\ Cardinality(DOMAIN queue) = BatchLimit
    /\ Cardinality({p \in DOMAIN scb_ref :
                       /\ scb_ref[p].next_update < now
                       /\ scb_ref[p].next_update > scb_ref[p].last_update}) > BatchLimit

(***************************************************************************)
(* Properties of the chunking (SpecChunk)                                  *)
(***************************************************************************)
\* C7: chunk_card_list returns chunks whose concatenation, in order, is the
\* value list of the chunk dimension.
C7_ChunkPartition ==
    kpc = "chunked" => chunks.raised = None /\ Concat(chunks.value) = card_list

\* C8: when the product P of the other dimensions is within ROW_BUDGET, every
\* chunk but the last has floor(ROW_BUDGET / P) values, so size * P is
\* within ROW_BUDGET.
C8_ChunkRowBudget ==
    (kpc = "chunked" /\ chunks.raised = None /\ Datapoints(query) <= ROW_BUDGET) =>
        \A i \in 1..(Len(chunks.value) - 1) :
            /\ Len(chunks.value[i]) = ROW_BUDGET \div Datapoints(query)
            /\ Len(chunks.value[i]) * Datapoints(query) <= ROW_BUDGET

\* C19: what a successful get_table hands to table_etl is one payload per
\* chunk, in chunk order, each the answer of the returning attempt to the
\* query of its chunk; every query holds the whole value list of each
\* other dimension and one chunk of the chunk dimension, and the chunks
\* of the queries, in order, are the value list of the chunk dimension.
C19_DownloadCoverage ==
    kpc = "returned" =>
        /\ Len(kret) = Len(chunks.value)
        /\ Len(kreqs) = Len(chunks.value)
        /\ \A i \in DOMAIN kret :
              /\ kret[i] = GetData(kattempt, kreqs[i])
              /\ DOMAIN kreqs[i] = DOMAIN tvars
              /\ kreqs[i][card_key] = chunks.value[i]
              /\ \A k \in (DOMAIN tvars) \ {card_key} : kreqs[i][k] = tvars[k]
        /\ Concat([i \in DOMAIN kreqs |-> kreqs[i][card_key]]) = tvars[card_key]

C19_Witness ==
    /\ kpc = "returned"
    /\ kdiscarded
    /\ kattempt = MaxAttempts - 1
    /\ Len(kret) >= 2
    /\ Len(tvars) >= 2

\* C21: during the download of one table, over all its attempts, a data
\* request, answered or failing, is at most the tenth since the last sleep;
\* the request of a chunk whose index is a positive multiple of 10 comes
\* right after a sleep; and a new attempt starts only after the backoff
\* sleep, made after the last request.
C21_RequestPacing ==
    [][/\ krun' <= 10
       /\ (/\ kpc = "chunked" /\ chunks.raised = None /\ ki < Len(chunks.value)
           /\ (ki' = ki + 1 \/ kpc' # kpc))
              => /\ krun + 1 <= 10
                 /\ (ki % 10 = 0 /\ ki > 0) => kslept /\ krun = 0 /\ klast > 0
       /\ kattempt' # kattempt
              => krun' = 0 /\ klast' = (kattempt + 1) * (kattempt + 1)]_vars

\* a second attempt has gone past its tenth request, ten requests in a row
\* after the backoff sleep and then the sleep of the rate limiter
C21_Witness ==
    /\ kpc = "chunked"
    /\ kattempt >= 1
    /\ ki > 10
    /\ krun > 0
    /\ klast = 5

(***************************************************************************)
(* Properties of the standalone pipeline (SpecBatch)                       *)
(***************************************************************************)

\* C25: whatever leaves were crawled and whichever of them failed all 3
\* download attempts, the rows downloaded for a leaf are merged only into
\* the table named from that leaf's full_nav_path, '.' replaced by '_'.
C25_BatchTableAlignment ==
    \A m \in bmerged : m.table = TableName(m.leaf)

(***************************************************************************)
(* Properties of the crawl (SpecCrawl)                                     *)
(***************************************************************************)
\* the leaves under the branch at path whose listing is l: the leaf children
\* in listing order, then the subtree of each branch child in listing order
RECURSIVE LeavesUnder(_, _)
LeavesUnder(l, path) ==
    LET part(i) == IF l[i].type = "l" THEN LeavesUnder(l[i].sub, Append(path, i))
                   ELSE <<>>
    IN [j \in DOMAIN SelectSeq([i \in DOMAIN l |-> i], LAMBDA i : l[i].type = "t") |->
            [full_nav_path |->
                Append(path, SelectSeq([i \in DOMAIN l |-> i],
                                       LAMBDA i : l[i].type = "t")[j])]]
       \o Concat([i \in DOMAIN l |-> part(i)])

\* C9: without listing errors the crawl does not abort, and when find_nodes
\* has returned for some start nodes, the result list holds one entry per
\* leaf under them, with the path of ids from the start node to the leaf,
\* start node by start node in the order given by the catalog.
C9_CrawlResult ==
    errs = 0 =>
        /\ cpc # "aborted"
        /\ cpc \in {"main", "crawled"} =>
              nodes = Concat([j \in DOMAIN crawled |->
                                LeavesUnder(catalog[crawled[j]].sub, <<crawled[j]>>)])

C9_Witness ==
    /\ errs = 0
    /\ cpc = "crawled"
    /\ Len(crawled) >= 2
    /\ \E i, j \in DOMAIN nodes :
          Len(nodes[i].full_nav_path) = 2 /\ Len(nodes[j].full_nav_path) >= 3

IsPrefix(a, b) == Len(a) <= Len(b) /\ SubSeq(b, 1, Len(a)) = a

\* C10: a listing that fails twice does not abort the crawl, and the finished
\* crawl holds every leaf outside the subtrees whose listing failed.
C10_CrawlErrorIsolation ==
    /\ cpc # "aborted"
    /\ cpc = "crawled" =>
          \A s \in DOMAIN catalog :
              \A n \in Range(LeavesUnder(catalog[s].sub, <<s>>)) :
                  (\A f \in failed : ~IsPrefix(f, n.full_nav_path)) => n \in Range(nodes)

====
